---- MODULE Spec2Model ----
(***************************************************************************)
(* State-machine model of the esp32-cam firmware: the link bring-up loop   *)
(* of wifi.rs (init_wifi / connect), the camera session of camera.rs       *)
(* (Camera::new, capture_jpeg, capture_bmp, Drop) and the boot sequence    *)
(* and HTTP capture handler of main.rs.                                    *)
(*                                                                         *)
(* Driver calls (esp_camera_*, frame2jpg, frame2bmp, the wifi driver) are  *)
(* the environment: each returns one of the outcomes its signature allows, *)
(* chosen nondeterministically.                                            *)
(***************************************************************************)
EXTENDS Integers, Sequences, FiniteSets

(***************************************************************************)
(* Bounds of the model.                                                    *)
(***************************************************************************)
\* number of capture calls (HTTP requests / direct callers) that may overlap
NumRequests == 2
\* number of connect attempts the environment lets fail during bring-up
MaxFails == 2
\* largest u32 given to a TryFrom<u32>; the native codes end at 22
MaxCode == 24

(***************************************************************************)
(* Program constants.                                                      *)
(***************************************************************************)
\* native pixel-format codes of the driver bindings (pixformat_t)
PIXFORMAT_RGB565 == 0
PIXFORMAT_YUV422 == 1
PIXFORMAT_YUV420 == 2
PIXFORMAT_GRAYSCALE == 3
PIXFORMAT_JPEG == 4
PIXFORMAT_RGB888 == 5
PIXFORMAT_RAW == 6
PIXFORMAT_RGB444 == 7
PIXFORMAT_RGB555 == 8
\* native frame-size codes of the driver bindings (framesize_t)
FRAMESIZE_96X96 == 0
FRAMESIZE_QQVGA == 1
FRAMESIZE_QCIF == 2
FRAMESIZE_HQVGA == 3
FRAMESIZE_240X240 == 4
FRAMESIZE_QVGA == 5
FRAMESIZE_CIF == 6
FRAMESIZE_HVGA == 7
FRAMESIZE_VGA == 8
FRAMESIZE_SVGA == 9
FRAMESIZE_XGA == 10
FRAMESIZE_HD == 11
FRAMESIZE_SXGA == 12
FRAMESIZE_UXGA == 13
FRAMESIZE_FHD == 14
FRAMESIZE_P_HD == 15
FRAMESIZE_P_3MP == 16
FRAMESIZE_QXGA == 17
FRAMESIZE_QHD == 18
FRAMESIZE_WQXGA == 19
FRAMESIZE_P_FHD == 20
FRAMESIZE_QSXGA == 21
FRAMESIZE_INVALID == 22
\* native codes of the frame buffer location (camera_fb_location_t) and of
\* the grab mode (camera_grab_mode_t)
CAMERA_FB_IN_PSRAM == 0
CAMERA_FB_IN_DRAM == 1
CAMERA_GRAB_WHEN_EMPTY == 0
CAMERA_GRAB_LATEST == 1
\* a Hertz(u32) is written as its two 16-bit halves, hi * 2^16 + lo:
\* the largest half, and the largest upper half of a value a c_int can hold
\* (i32::MAX = 32767 * 2^16 + 65535)
U16_MAX == 65535
I32_MAX_HI == 32767
\* quality argument capture_jpeg gives the converter
JPG_QUALITY == 80

Requests == 1..NumRequests
NoRequest == 0

\* configured credentials (toml_cfg CONFIG; both default to "")
Ssids == {"", "cam"}
Passes == {"", "pw"}

\* what a scan may report: sequences of access points, in scan order
ScanResults ==
    { << >>,
      << [ssid |-> "other", channel |-> 1] >>,
      << [ssid |-> "other", channel |-> 1],
         [ssid |-> "cam", channel |-> 6],
         [ssid |-> "cam", channel |-> 11] >> }

NoChannel == 0

\* frames the sensor can deliver (format code and bytes)
Frames ==
    { [format |-> PIXFORMAT_JPEG, buf |-> <<255, 216, 9>>],
      [format |-> PIXFORMAT_RGB565, buf |-> <<1, 2>>] }
NoFrame == [format |-> -1, buf |-> << >>]

\* Option<i32>
None == [some |-> FALSE, val |-> 0]
Some(v) == [some |-> TRUE, val |-> v]

\* From<PixelFormat> for u32, camera.rs lines 205-219
PixelFormatToU32(value) ==
    CASE value = "RGB565" -> PIXFORMAT_RGB565
      [] value = "YUV422" -> PIXFORMAT_YUV422
      [] value = "YUV420" -> PIXFORMAT_YUV420
      [] value = "GRAYSCALE" -> PIXFORMAT_GRAYSCALE
      [] value = "JPEG" -> PIXFORMAT_JPEG
      [] value = "RGB888" -> PIXFORMAT_RGB888
      [] value = "RAW" -> PIXFORMAT_RAW
      [] value = "RGB444" -> PIXFORMAT_RGB444
      [] value = "RGB555" -> PIXFORMAT_RGB555

PixelFormats ==
    {"RGB565", "YUV422", "YUV420", "GRAYSCALE", "JPEG", "RGB888", "RAW", "RGB444", "RGB555"}

\* Result<Self, anyhow::Error> of a TryFrom<u32>
Ok(v) == [ok |-> TRUE, val |-> v]
Err == [ok |-> FALSE, val |-> "Error"]

\* TryFrom<u32> for PixelFormat, camera.rs lines 221-238
PixelFormatTryFrom(value) ==
    CASE value = PIXFORMAT_RGB565 -> Ok("RGB565")
      [] value = PIXFORMAT_YUV422 -> Ok("YUV422")
      [] value = PIXFORMAT_YUV420 -> Ok("YUV420")
      [] value = PIXFORMAT_GRAYSCALE -> Ok("GRAYSCALE")
      [] value = PIXFORMAT_JPEG -> Ok("JPEG")
      [] value = PIXFORMAT_RGB888 -> Ok("RGB888")
      [] value = PIXFORMAT_RAW -> Ok("RAW")
      [] value = PIXFORMAT_RGB444 -> Ok("RGB444")
      [] value = PIXFORMAT_RGB555 -> Ok("RGB555")
      [] OTHER -> Err

\* From<FrameSize> for u32, camera.rs lines 268-296
FrameSizeToU32(value) ==
    CASE value = "S96X96" -> FRAMESIZE_96X96
      [] value = "QQVGA" -> FRAMESIZE_QQVGA
      [] value = "QCIF" -> FRAMESIZE_QCIF
      [] value = "HQVGA" -> FRAMESIZE_HQVGA
      [] value = "S240X240" -> FRAMESIZE_240X240
      [] value = "QVGA" -> FRAMESIZE_QVGA
      [] value = "CIF" -> FRAMESIZE_CIF
      [] value = "HVGA" -> FRAMESIZE_HVGA
      [] value = "VGA" -> FRAMESIZE_VGA
      [] value = "SVGA" -> FRAMESIZE_SVGA
      [] value = "XGA" -> FRAMESIZE_XGA
      [] value = "HD" -> FRAMESIZE_HD
      [] value = "SXGA" -> FRAMESIZE_SXGA
      [] value = "UXGA" -> FRAMESIZE_UXGA
      [] value = "FHD" -> FRAMESIZE_FHD
      [] value = "P_HD" -> FRAMESIZE_P_HD
      [] value = "P_3MP" -> FRAMESIZE_P_3MP
      [] value = "QXGA" -> FRAMESIZE_QXGA
      [] value = "QHD" -> FRAMESIZE_QHD
      [] value = "WQXGA" -> FRAMESIZE_WQXGA
      [] value = "P_FHD" -> FRAMESIZE_P_FHD
      [] value = "QSXGA" -> FRAMESIZE_QSXGA
      [] value = "INVALID" -> FRAMESIZE_INVALID

\* TryFrom<u32> for FrameSize, camera.rs lines 298-329
FrameSizeTryFrom(value) ==
    CASE value = FRAMESIZE_96X96 -> Ok("S96X96")
      [] value = FRAMESIZE_QQVGA -> Ok("QQVGA")
      [] value = FRAMESIZE_QCIF -> Ok("QCIF")
      [] value = FRAMESIZE_HQVGA -> Ok("HQVGA")
      [] value = FRAMESIZE_240X240 -> Ok("S240X240")
      [] value = FRAMESIZE_QVGA -> Ok("QVGA")
      [] value = FRAMESIZE_CIF -> Ok("CIF")
      [] value = FRAMESIZE_HVGA -> Ok("HVGA")
      [] value = FRAMESIZE_VGA -> Ok("VGA")
      [] value = FRAMESIZE_SVGA -> Ok("SVGA")
      [] value = FRAMESIZE_XGA -> Ok("XGA")
      [] value = FRAMESIZE_HD -> Ok("HD")
      [] value = FRAMESIZE_SXGA -> Ok("SXGA")
      [] value = FRAMESIZE_UXGA -> Ok("UXGA")
      [] value = FRAMESIZE_FHD -> Ok("FHD")
      [] value = FRAMESIZE_P_HD -> Ok("P_HD")
      [] value = FRAMESIZE_P_3MP -> Ok("P_3MP")
      [] value = FRAMESIZE_QXGA -> Ok("QXGA")
      [] value = FRAMESIZE_QHD -> Ok("QHD")
      [] value = FRAMESIZE_WQXGA -> Ok("WQXGA")
      [] value = FRAMESIZE_P_FHD -> Ok("P_FHD")
      [] value = FRAMESIZE_QSXGA -> Ok("QSXGA")
      [] value = FRAMESIZE_INVALID -> Ok("INVALID")
      [] OTHER -> Err

FrameSizes ==
    {"S96X96", "QQVGA", "QCIF", "HQVGA", "S240X240", "QVGA", "CIF", "HVGA",
     "VGA", "SVGA", "XGA", "HD", "SXGA", "UXGA", "FHD", "P_HD",
     "P_3MP", "QXGA", "QHD", "WQXGA", "P_FHD", "QSXGA", "INVALID"}

\* the frame sizes the configurations of this model use
ConfigFrameSizes == {"S96X96", "QVGA", "UXGA"}

FbLocations == {"DRAM", "PSRAM"}

\* From<FbLocation> for u32, camera.rs lines 338-345
FbLocationToU32(value) ==
    CASE value = "DRAM" -> CAMERA_FB_IN_DRAM
      [] value = "PSRAM" -> CAMERA_FB_IN_PSRAM

\* TryFrom<u32> for FbLocation, camera.rs lines 347-357
FbLocationTryFrom(value) ==
    CASE value = CAMERA_FB_IN_DRAM -> Ok("DRAM")
      [] value = CAMERA_FB_IN_PSRAM -> Ok("PSRAM")
      [] OTHER -> Err

FbGrabModes == {"WhenEmpty", "Latest"}

\* From<FbGrabMode> for u32, camera.rs lines 366-373
FbGrabModeToU32(value) ==
    CASE value = "WhenEmpty" -> CAMERA_GRAB_WHEN_EMPTY
      [] value = "Latest" -> CAMERA_GRAB_LATEST

\* a reverse mapping with its two modes exchanged
FbGrabModeTryFromSwapped(value) ==
    CASE value = CAMERA_GRAB_WHEN_EMPTY -> Ok("Latest")
      [] value = CAMERA_GRAB_LATEST -> Ok("WhenEmpty")
      [] OTHER -> Err

\* TryFrom<u32> for FbGrabMode, camera.rs lines 375-385
FbGrabModeTryFrom(value) ==
    CASE value = CAMERA_GRAB_WHEN_EMPTY -> Ok("WhenEmpty")
      [] value = CAMERA_GRAB_LATEST -> Ok("Latest")
      [] OTHER -> Err

\* the four enums of camera.rs that have a native code, with their variants
\* and their two conversions
EnumTypes == {"PixelFormat", "FrameSize", "FbLocation", "FbGrabMode"}

Variants(ty) ==
    CASE ty = "PixelFormat" -> PixelFormats
      [] ty = "FrameSize" -> FrameSizes
      [] ty = "FbLocation" -> FbLocations
      [] ty = "FbGrabMode" -> FbGrabModes

IntoU32(ty, value) ==
    CASE ty = "PixelFormat" -> PixelFormatToU32(value)
      [] ty = "FrameSize" -> FrameSizeToU32(value)
      [] ty = "FbLocation" -> FbLocationToU32(value)
      [] ty = "FbGrabMode" -> FbGrabModeToU32(value)

TryFromU32(ty, value) ==
    CASE ty = "PixelFormat" -> PixelFormatTryFrom(value)
      [] ty = "FrameSize" -> FrameSizeTryFrom(value)
      [] ty = "FbLocation" -> FbLocationTryFrom(value)
      [] ty = "FbGrabMode" -> FbGrabModeTryFrom(value)

\* u32 values handed to a TryFrom<u32>: every native code and values past
\* the last of them
Codes == 0..MaxCode

NoCode == -1
NoResult == [ok |-> FALSE, val |-> "none"]

\* no conversion is under way
NoConversion ==
    [at |-> "none", ty |-> "none", value |-> "none", code |-> NoCode, res |-> NoResult]

\* a conversion that starts from a variant, resp. from a u32
FromVariant(ty, v) ==
    [at |-> "variant", ty |-> ty, value |-> v, code |-> NoCode, res |-> NoResult]
FromCode(ty, c) ==
    [at |-> "code", ty |-> ty, value |-> "none", code |-> c, res |-> NoResult]

\* clock frequencies a Hertz(u32) can hold: the usual 20 MHz and the values
\* around the end of the driver's c_int
Hertz(hi, lo) == [hi |-> hi, lo |-> lo]
XclkFreqs ==
    {Hertz(305, 11520),                \* 20000000, what main uses
     Hertz(I32_MAX_HI, U16_MAX),       \* i32::MAX
     Hertz(I32_MAX_HI + 1, 0),         \* i32::MAX + 1
     Hertz(U16_MAX, U16_MAX)}          \* u32::MAX

\* CameraConfig values (camera.rs lines 20-30); jpeg_quality, fb_count,
\* fb_location and grab_mode are copied to the driver as they are
CameraConfigs ==
    [xclk_freq : XclkFreqs, pixel_format : PixelFormats, frame_size : ConfigFrameSizes,
     sccb_i2c_port : {None, Some(0), Some(1)}]

\* the configuration main uses (main.rs lines 98-110)
MainConfig ==
    [xclk_freq |-> Hertz(305, 11520), pixel_format |-> "JPEG", frame_size |-> "UXGA",
     sccb_i2c_port |-> Some(0)]

\* no camera_config_t has been given to the driver yet
NoDriverConfig ==
    [xclk_freq_hz |-> Hertz(0, 0), pixel_format |-> PIXFORMAT_RGB565,
     frame_size |-> FRAMESIZE_96X96, sccb_i2c_port |-> 0]

VARIABLES
    \* ---- main.rs: fn main
    pcMain,        \* position of the main thread
    registered,    \* the GET / handler is registered with the HTTP server
    \* ---- wifi.rs: configuration and init_wifi / connect
    ssid, pass,    \* CONFIG.wifi_ssid, CONFIG.wifi_psk
    wpc,           \* position inside init_wifi / connect
    counter,       \* init_wifi's `counter`
    attempts,      \* connect() calls made by init_wifi
    fails,         \* connect() calls that returned Err
    upCount,       \* connect() calls that returned Ok (supervisor reached Up)
    steps,         \* radio steps performed by the current connect() call
    channel,       \* connect's local `channel` (NoChannel = None)
    authMethod,    \* connect's local `auth_method`
    wifiConf,      \* last client configuration given to the driver
    linkUp,        \* the network interface is up
    \* ---- camera.rs: the session and the driver behind it
    session,       \* "none" | "live" | "dropped"
    deinitCount,   \* esp_camera_deinit calls
    checkedOut,    \* frames handed out by esp_camera_fb_get, not yet returned
    convLive,      \* output buffers allocated by frame2jpg / frame2bmp, not freed
    lockHolder,    \* holder of the Mutex<Camera> (NoRequest = unlocked)
    \* ---- per capture call
    pc, kind, fb, buffer, vec, capRes, status, body, hres,
    gets, acq, rets, convs, resps,
    copyHeld,      \* to_vec ran while the call's frame was still checked out
    \* ---- Camera::new
    cfg,           \* the CameraConfig given to Camera::new
    drv,           \* the camera_config_t given to esp_camera_init
    camInit,       \* what esp_camera_init returned: "none" | "ok" | "failed"
    \* ---- connect
    apInfos,       \* connect's local `ap_infos`, the scan result
    \* ---- camera.rs: a conversion between an enum and its native code
    enumConv       \* the value being converted, and what came of it

wifiVars == <<ssid, pass, wpc, counter, attempts, fails, upCount, steps,
              channel, authMethod, wifiConf, linkUp>>
mainVars == <<pcMain, registered>>
camVars == <<session, deinitCount, checkedOut, convLive, lockHolder>>
reqVars == <<pc, kind, fb, buffer, vec, capRes, status, body, hres,
             gets, acq, rets, convs, resps>>
cfgVars == <<cfg, drv, camInit>>
vars == <<mainVars, wifiVars, camVars, reqVars, copyHeld, cfgVars, apInfos, enumConv>>

DefaultConf == [ssid |-> "", password |-> "", channel |-> NoChannel, auth |-> "WPA2Personal"]

\* the state at process start, but for the camera configuration
InitBase ==
    /\ pcMain = "wifi"
    /\ registered = FALSE
    /\ ssid \in Ssids
    /\ pass \in Passes
    /\ wpc = "new"
    /\ counter = 0
    /\ attempts = 0
    /\ fails = 0
    /\ upCount = 0
    /\ steps = << >>
    /\ channel = NoChannel
    /\ authMethod = "unset"
    /\ wifiConf = DefaultConf
    /\ linkUp = FALSE
    /\ session = "none"
    /\ deinitCount = 0
    /\ checkedOut = {}
    /\ convLive = 0
    /\ lockHolder = NoRequest
    /\ pc = [r \in Requests |-> "idle"]
    /\ kind = [r \in Requests |-> "none"]
    /\ fb = [r \in Requests |-> NoFrame]
    /\ buffer = [r \in Requests |-> << >>]
    /\ vec = [r \in Requests |-> << >>]
    /\ capRes = [r \in Requests |-> "none"]
    /\ status = [r \in Requests |-> 0]
    /\ body = [r \in Requests |-> << >>]
    /\ hres = [r \in Requests |-> "none"]
    /\ gets = [r \in Requests |-> 0]
    /\ acq = [r \in Requests |-> 0]
    /\ rets = [r \in Requests |-> 0]
    /\ convs = [r \in Requests |-> 0]
    /\ resps = [r \in Requests |-> 0]
    /\ copyHeld = [r \in Requests |-> FALSE]
    /\ drv = NoDriverConfig
    /\ camInit = "none"
    /\ apInfos = << >>

Init == InitBase /\ cfg = MainConfig /\ enumConv = NoConversion

(***************************************************************************)
(* wifi.rs                                                                 *)
(***************************************************************************)

\* init_wifi, lines 17-21: EspDefaultNvsPartition::take()? and EspWifi::new(..)?
WifiNew ==
    /\ pcMain = "wifi" /\ wpc = "new"
    /\ \E ok \in BOOLEAN :
         IF ok THEN /\ wpc' = "begin"
                    /\ pcMain' = pcMain
               ELSE /\ wpc' = "err"
                    /\ pcMain' = "exit_err"
    /\ UNCHANGED <<registered, ssid, pass, counter, attempts, fails, upCount, steps,
                   channel, authMethod, wifiConf, linkUp, camVars, reqVars>>
    /\ UNCHANGED <<cfgVars, copyHeld, apInfos, enumConv>>

\* a step of connect() returned Err through `?`: connect returns Err, and
\* init_wifi's `.is_ok()` test is false (lines 26-31)
ConnectErr ==
    /\ fails < MaxFails
    /\ fails' = fails + 1
    /\ wpc' = "retry"

\* a check that lets every name through
NameNeverMissing(name) == FALSE

\* connect, line 45: ssid.is_empty()
MissingName(name) == name = ""

\* an association that always asks for WPA2
AuthAlwaysWpa2(password) == "WPA2Personal"

\* connect, lines 49-54: auth_method from the pass-phrase
AuthFor(password) == IF password = "" THEN "None" ELSE "WPA2Personal"

\* connect, lines 45-58: the empty-name check, the choice of auth_method,
\* AsyncWifi::wrap and the first set_configuration
ConnectBegin ==
    /\ pcMain = "wifi" /\ wpc = "begin"
    /\ attempts' = attempts + 1
    /\ steps' = << >>
    /\ channel' = NoChannel
    /\ apInfos' = << >>
    /\ IF MissingName(ssid)
       THEN \* panic!("Missing WiFi name")
            /\ wpc' = "panic"
            /\ pcMain' = "panicked"
            /\ UNCHANGED <<authMethod, wifiConf, fails>>
       ELSE /\ authMethod' = AuthFor(pass)
            /\ pcMain' = pcMain
            /\ \E ok \in BOOLEAN :
                 IF ok THEN /\ wifiConf' = DefaultConf
                            /\ wpc' = "start"
                            /\ fails' = fails
                       ELSE /\ wifiConf' = wifiConf
                            /\ ConnectErr
    /\ UNCHANGED <<registered, ssid, pass, counter, upCount, linkUp, camVars, reqVars>>
    /\ UNCHANGED <<cfgVars, copyHeld, enumConv>>

\* a radio step of connect() that either succeeds and moves on, or fails
RadioStep(at, name, next) ==
    /\ pcMain = "wifi" /\ wpc = at
    /\ steps' = Append(steps, name)
    /\ \E ok \in BOOLEAN :
         IF ok THEN /\ wpc' = next
                    /\ fails' = fails
               ELSE ConnectErr

\* connect, line 62: wifi.start().await?
WifiStart ==
    /\ RadioStep("start", "start", "scan")
    /\ UNCHANGED <<mainVars, ssid, pass, counter, attempts, upCount, channel,
                   authMethod, wifiConf, linkUp, camVars, reqVars>>
    /\ UNCHANGED <<cfgVars, copyHeld, apInfos, enumConv>>

RECURSIVE FindLastSsid(_, _)
\* a search that keeps the last matching access point
FindLastSsid(aps, name) ==
    IF aps = << >> THEN NoChannel
    ELSE IF aps[Len(aps)].ssid = name THEN aps[Len(aps)].channel
    ELSE FindLastSsid(SubSeq(aps, 1, Len(aps) - 1), name)

RECURSIVE FindSsid(_, _)
\* Iterator::find, line 68: the first access point whose name is `name`
FindSsid(aps, name) ==
    IF aps = << >> THEN NoChannel
    ELSE IF Head(aps).ssid = name THEN Head(aps).channel
    ELSE FindSsid(Tail(aps), name)

\* connect, lines 66-82: wifi.scan().await? and the channel of our network
WifiScan ==
    /\ pcMain = "wifi" /\ wpc = "scan"
    /\ steps' = Append(steps, "scan")
    /\ \/ \E aps \in ScanResults :
            /\ apInfos' = aps
            /\ channel' = FindSsid(aps, ssid)
            /\ wpc' = "configure"
            /\ fails' = fails
       \/ /\ ConnectErr
          /\ UNCHANGED <<channel, apInfos>>
    /\ UNCHANGED <<mainVars, ssid, pass, counter, attempts, upCount,
                   authMethod, wifiConf, linkUp, camVars, reqVars>>
    /\ UNCHANGED <<cfgVars, copyHeld, enumConv>>

\* connect, lines 84-90: set_configuration with name, pass-phrase, channel, auth
WifiConfigure ==
    /\ pcMain = "wifi" /\ wpc = "configure"
    /\ steps' = Append(steps, "configure")
    /\ \E ok \in BOOLEAN :
         IF ok THEN /\ wifiConf' = [ssid |-> ssid, password |-> pass,
                                    channel |-> channel, auth |-> authMethod]
                    /\ wpc' = "associate"
                    /\ fails' = fails
               ELSE /\ wifiConf' = wifiConf
                    /\ ConnectErr
    /\ UNCHANGED <<mainVars, ssid, pass, counter, attempts, upCount, channel,
                   authMethod, linkUp, camVars, reqVars>>
    /\ UNCHANGED <<cfgVars, copyHeld, apInfos, enumConv>>

\* connect, line 94: wifi.connect().await?
WifiConnect ==
    /\ RadioStep("associate", "associate", "lease")
    /\ UNCHANGED <<mainVars, ssid, pass, counter, attempts, upCount, channel,
                   authMethod, wifiConf, linkUp, camVars, reqVars>>
    /\ UNCHANGED <<cfgVars, copyHeld, apInfos, enumConv>>

\* connect, line 98: wifi.wait_netif_up().await?
WaitNetifUp ==
    /\ pcMain = "wifi" /\ wpc = "lease"
    /\ steps' = Append(steps, "lease")
    /\ \E ok \in BOOLEAN :
         IF ok THEN /\ linkUp' = TRUE
                    /\ wpc' = "ipinfo"
                    /\ fails' = fails
               ELSE /\ linkUp' = linkUp
                    /\ ConnectErr
    /\ UNCHANGED <<mainVars, ssid, pass, counter, attempts, upCount, channel,
                   authMethod, wifiConf, camVars, reqVars>>
    /\ UNCHANGED <<cfgVars, copyHeld, apInfos, enumConv>>

\* connect, lines 100-104: get_ip_info()? and Ok(()); init_wifi breaks (26-31)
GetIpInfo ==
    /\ pcMain = "wifi" /\ wpc = "ipinfo"
    /\ \E ok \in BOOLEAN :
         IF ok THEN /\ upCount' = upCount + 1
                    /\ wpc' = "done"
                    /\ fails' = fails
               ELSE /\ upCount' = upCount
                    /\ ConnectErr
    /\ UNCHANGED <<mainVars, ssid, pass, counter, attempts, steps, channel,
                   authMethod, wifiConf, linkUp, camVars, reqVars>>
    /\ UNCHANGED <<cfgVars, copyHeld, apInfos, enumConv>>

\* init_wifi, lines 32-34: counter += 1, warn!, and the loop runs connect again
RetryBreaks ==
    /\ pcMain = "wifi" /\ wpc = "retry"
    /\ counter' = counter + 1
    /\ wpc' = "err"
    /\ pcMain' = "exit_err"
    /\ UNCHANGED <<registered, ssid, pass, attempts, fails, upCount, steps, channel,
                   authMethod, wifiConf, linkUp, camVars, reqVars>>
    /\ UNCHANGED <<cfgVars, copyHeld, apInfos, enumConv>>

\* a retry that takes the attempt up again at the step that failed
RetryResumes ==
    /\ pcMain = "wifi" /\ wpc = "retry"
    /\ counter' = counter + 1
    /\ wpc' = IF steps = << >> THEN "begin" ELSE steps[Len(steps)]
    /\ UNCHANGED <<mainVars, ssid, pass, attempts, fails, upCount, steps, channel,
                   authMethod, wifiConf, linkUp, camVars, reqVars>>
    /\ UNCHANGED <<cfgVars, copyHeld, apInfos, enumConv>>

\* init_wifi, lines 25-34: connect returned Err; counter += 1, warn!, loop
Retry ==
    /\ pcMain = "wifi" /\ wpc = "retry"
    /\ counter' = counter + 1
    /\ wpc' = "begin"
    /\ UNCHANGED <<mainVars, ssid, pass, attempts, fails, upCount, steps, channel,
                   authMethod, wifiConf, linkUp, camVars, reqVars>>
    /\ UNCHANGED <<cfgVars, copyHeld, apInfos, enumConv>>

\* init_wifi, line 36, and main.rs lines 193-198: Ok(Box::new(esp_wifi)) reaches
\* main, which goes on to create the camera; init_wifi's locals are gone
\* a boot that goes from the link straight to the handler registration
WifiReturnSkipsCamera ==
    /\ pcMain = "wifi" /\ wpc = "done"
    /\ pcMain' = "handler"
    /\ wpc' = "returned"
    /\ counter' = 0
    /\ attempts' = 0
    /\ fails' = 0
    /\ steps' = << >>
    /\ channel' = NoChannel
    /\ authMethod' = "unset"
    /\ apInfos' = << >>
    /\ UNCHANGED <<registered, ssid, pass, upCount, wifiConf, linkUp, camVars, reqVars>>
    /\ UNCHANGED <<cfgVars, copyHeld, enumConv>>

WifiReturn ==
    /\ pcMain = "wifi" /\ wpc = "done"
    /\ pcMain' = "camera"
    /\ wpc' = "returned"
    /\ counter' = 0
    /\ attempts' = 0
    /\ fails' = 0
    /\ steps' = << >>
    /\ channel' = NoChannel
    /\ authMethod' = "unset"
    /\ apInfos' = << >>
    /\ UNCHANGED <<registered, ssid, pass, upCount, wifiConf, linkUp, camVars, reqVars>>
    /\ UNCHANGED <<cfgVars, copyHeld, enumConv>>

\* the environment: the access point or the radio link goes away
LinkDrop ==
    /\ linkUp
    /\ wpc = "returned"
    /\ linkUp' = FALSE
    /\ UNCHANGED <<mainVars, ssid, pass, wpc, counter, attempts, fails, upCount, steps,
                   channel, authMethod, wifiConf, camVars, reqVars>>
    /\ UNCHANGED <<cfgVars, copyHeld, apInfos, enumConv>>

WifiStep ==
    \/ WifiNew \/ ConnectBegin \/ WifiStart \/ WifiScan \/ WifiConfigure
    \/ WifiConnect \/ WaitNetifUp \/ GetIpInfo \/ Retry \/ WifiReturn

(***************************************************************************)
(* camera.rs: the session                                                  *)
(***************************************************************************)

\* u32 -> c_int, camera.rs line 111: `.try_into()` is Ok when the value fits
FitsI32(v) == v.hi <= I32_MAX_HI

\* Option::unwrap_or, camera.rs line 124
UnwrapOr(opt, default) == IF opt.some THEN opt.val ELSE default

\* Camera::new, lines 90-125: the camera_config_t built from the CameraConfig
\* (the fields this model carries)
DriverConfig(c) ==
    [xclk_freq_hz |-> c.xclk_freq,
     pixel_format |-> PixelFormatToU32(c.pixel_format),
     frame_size |-> FrameSizeToU32(c.frame_size),
     sccb_i2c_port |-> UnwrapOr(c.sccb_i2c_port, -1)]

\* a constructor that hands out a session although the driver refused
CameraNewPartial ==
    /\ pcMain = "camera"
    /\ IF ~FitsI32(cfg.xclk_freq)
       THEN /\ pcMain' = "panicked"
            /\ UNCHANGED <<session, drv, camInit>>
       ELSE /\ drv' = DriverConfig(cfg)
            /\ \E ok \in BOOLEAN :
                 IF ok THEN /\ camInit' = "ok"
                            /\ session' = "live"
                            /\ pcMain' = "server"
                       ELSE /\ camInit' = "failed"
                            /\ session' = "live"
                            /\ pcMain' = "unwind"
    /\ UNCHANGED <<registered, wifiVars, deinitCount, checkedOut, convLive,
                   lockHolder, reqVars, cfg, copyHeld, apInfos, enumConv>>

\* Camera::new, lines 90-133 (main.rs 77-119, called at main.rs 200-218):
\* build camera_config_t (the clock conversion is `.try_into().unwrap()`),
\* esp!(esp_camera_init(&config))? and Ok(Self {..})
CameraNew ==
    /\ pcMain = "camera"
    /\ IF ~FitsI32(cfg.xclk_freq)
       THEN \* unwrap() on Err: panic
            /\ pcMain' = "panicked"
            /\ UNCHANGED <<session, drv, camInit>>
       ELSE /\ drv' = DriverConfig(cfg)
            /\ \E ok \in BOOLEAN :
                 IF ok THEN /\ camInit' = "ok"
                            /\ session' = "live"
                            /\ pcMain' = "server"
                       ELSE /\ camInit' = "failed"
                            /\ session' = session
                            /\ pcMain' = "exit_err"
    /\ UNCHANGED <<registered, wifiVars, deinitCount, checkedOut, convLive,
                   lockHolder, reqVars, cfg>>
    /\ UNCHANGED <<copyHeld, apInfos, enumConv>>

\* a session that is dropped without deinitializing the peripheral
DropKeepsDriver ==
    /\ session' = "dropped"
    /\ deinitCount' = deinitCount

\* Drop for Camera, lines 183-189 (main.rs 166-172): esp_camera_deinit()
DropCamera ==
    /\ session' = "dropped"
    /\ deinitCount' = deinitCount + 1

(***************************************************************************)
(* main.rs: the rest of fn main                                            *)
(***************************************************************************)

\* main.rs lines 220-222: Arc::new(Mutex::new(camera)) and EspHttpServer::new(..)?
ServerNew ==
    /\ pcMain = "server"
    /\ \E ok \in BOOLEAN : pcMain' = IF ok THEN "handler" ELSE "unwind"
    /\ UNCHANGED <<registered, wifiVars, camVars, reqVars>>
    /\ UNCHANGED <<cfgVars, copyHeld, apInfos, enumConv>>

\* main.rs lines 224-247: server.fn_handler("/", Get, ..)?
RegisterHandler ==
    /\ pcMain = "handler"
    /\ \E ok \in BOOLEAN :
         IF ok THEN /\ registered' = TRUE
                    /\ pcMain' = "loop"
               ELSE /\ registered' = registered
                    /\ pcMain' = "unwind"
    /\ UNCHANGED <<wifiVars, camVars, reqVars>>
    /\ UNCHANGED <<cfgVars, copyHeld, apInfos, enumConv>>

\* main returns Err after the session was created: its locals are dropped, the
\* last Arc<Mutex<Camera>> among them
MainUnwind ==
    /\ pcMain = "unwind"
    /\ DropCamera
    /\ pcMain' = "exit_err"
    /\ UNCHANGED <<registered, wifiVars, checkedOut, convLive, lockHolder, reqVars>>
    /\ UNCHANGED <<cfgVars, copyHeld, apInfos, enumConv>>

\* main.rs lines 249-251: loop { sleep(1 s) }: the thread goes to sleep ...
MainSleep ==
    /\ pcMain = "loop"
    /\ pcMain' = "sleep"
    /\ UNCHANGED <<registered, wifiVars, camVars, reqVars>>
    /\ UNCHANGED <<cfgVars, copyHeld, apInfos, enumConv>>

\* ... and wakes up a second later, into the next iteration
MainWake ==
    /\ pcMain = "sleep"
    /\ pcMain' = "loop"
    /\ UNCHANGED <<registered, wifiVars, camVars, reqVars>>
    /\ UNCHANGED <<cfgVars, copyHeld, apInfos, enumConv>>

\* main.rs lines 182-247: everything main does before its final loop
BootStep ==
    \/ WifiStep \/ CameraNew \/ ServerNew \/ RegisterHandler \/ MainUnwind

MainStep ==
    \/ BootStep \/ MainSleep \/ MainWake

(***************************************************************************)
(* The converters (esp32-camera's to_jpg / to_bmp), by what they produce:  *)
(* a new buffer that starts with the format's marker.                      *)
(***************************************************************************)
Frame2Jpg(frame, quality) == <<255, 216>> \o frame.buf
Frame2Bmp(frame) == <<66, 77>> \o frame.buf

(***************************************************************************)
(* One capture call: the GET / handler of main.rs (capture_jpeg), or a     *)
(* caller of capture_bmp that reaches the session through the same mutex.  *)
(***************************************************************************)
Kinds == {"jpeg", "bmp"}

\* a request reaches the handler (or a caller starts a capture_bmp call)
Arrive(r) ==
    /\ registered
    /\ pc[r] = "idle"
    /\ \E k \in Kinds : kind' = [kind EXCEPT ![r] = k]
    /\ pc' = [pc EXCEPT ![r] = "lock"]
    /\ UNCHANGED <<mainVars, wifiVars, camVars, fb, buffer, vec, capRes, status,
                   body, hres, gets, acq, rets, convs, resps>>
    /\ UNCHANGED <<cfgVars, copyHeld, apInfos, enumConv>>

\* a lock that does not exclude
LockNoExclusion(r) ==
    /\ pc[r] = "lock"
    /\ lockHolder' = r
    /\ pc' = [pc EXCEPT ![r] = "fb_get"]
    /\ UNCHANGED <<mainVars, wifiVars, session, deinitCount, checkedOut, convLive,
                   kind, fb, buffer, vec, capRes, status, body, hres,
                   gets, acq, rets, convs, resps>>
    /\ UNCHANGED <<cfgVars, copyHeld, apInfos, enumConv>>

\* main.rs line 225: cam.lock().unwrap()
Lock(r) ==
    /\ pc[r] = "lock"
    /\ lockHolder = NoRequest
    /\ lockHolder' = r
    /\ pc' = [pc EXCEPT ![r] = "fb_get"]
    /\ UNCHANGED <<mainVars, wifiVars, session, deinitCount, checkedOut, convLive,
                   kind, fb, buffer, vec, capRes, status, body, hres,
                   gets, acq, rets, convs, resps>>
    /\ UNCHANGED <<cfgVars, copyHeld, apInfos, enumConv>>

\* an acquisition that asks the driver a second time after a null frame
FbGetRetries(r) ==
    /\ pc[r] = "fb_get"
    /\ gets' = [gets EXCEPT ![r] = @ + 1]
    /\ \/ /\ capRes' = [capRes EXCEPT ![r] = IF gets[r] = 0 THEN @ ELSE "noframe"]
          /\ pc' = [pc EXCEPT ![r] = IF gets[r] = 0 THEN "fb_get" ELSE "unlock"]
          /\ UNCHANGED <<fb, acq, checkedOut>>
       \/ \E f \in Frames :
            /\ fb' = [fb EXCEPT ![r] = f]
            /\ acq' = [acq EXCEPT ![r] = @ + 1]
            /\ checkedOut' = checkedOut \cup {r}
            /\ capRes' = capRes
            /\ pc' = [pc EXCEPT ![r] = "encode"]
    /\ UNCHANGED <<mainVars, wifiVars, session, deinitCount, convLive, lockHolder,
                   kind, buffer, vec, status, body, hres, rets, convs, resps>>
    /\ UNCHANGED <<cfgVars, copyHeld, apInfos, enumConv>>

\* capture_jpeg lines 137-138, capture_bmp lines 163-164 (main.rs 140-143):
\* esp_camera_fb_get(), and the error return on a null frame
FbGet(r) ==
    /\ pc[r] = "fb_get"
    /\ gets' = [gets EXCEPT ![r] = @ + 1]
    /\ \/ \* null
          /\ capRes' = [capRes EXCEPT ![r] = "noframe"]
          /\ pc' = [pc EXCEPT ![r] = "unlock"]
          /\ UNCHANGED <<fb, acq, checkedOut>>
       \/ \E f \in Frames :
            /\ fb' = [fb EXCEPT ![r] = f]
            /\ acq' = [acq EXCEPT ![r] = @ + 1]
            /\ checkedOut' = checkedOut \cup {r}
            /\ capRes' = capRes
            /\ pc' = [pc EXCEPT ![r] = "encode"]
    /\ UNCHANGED <<mainVars, wifiVars, session, deinitCount, convLive, lockHolder,
                   kind, buffer, vec, status, body, hres, rets, convs, resps>>
    /\ UNCHANGED <<cfgVars, copyHeld, apInfos, enumConv>>

\* capture_jpeg line 145: fb.format != PIXFORMAT_JPEG
AlwaysConvert(frame) == TRUE

NeedsConversion(frame) == frame.format # PIXFORMAT_JPEG

\* capture_jpeg lines 142-154 (main.rs 145-158)
EncodeJpeg(r) ==
    /\ pc[r] = "encode" /\ kind[r] = "jpeg"
    /\ IF NeedsConversion(fb[r])
       THEN /\ convs' = [convs EXCEPT ![r] = @ + 1]
            /\ \E converted \in BOOLEAN :
                 IF converted
                 THEN /\ buffer' = [buffer EXCEPT ![r] = Frame2Jpg(fb[r], JPG_QUALITY)]
                      /\ convLive' = convLive + 1
                      /\ pc' = [pc EXCEPT ![r] = "copy"]
                 ELSE /\ UNCHANGED <<buffer, convLive>>
                      /\ pc' = [pc EXCEPT ![r] = "fail_return"]
       ELSE /\ buffer' = [buffer EXCEPT ![r] = fb[r].buf]
            /\ pc' = [pc EXCEPT ![r] = "copy"]
            /\ UNCHANGED <<convs, convLive>>
    /\ UNCHANGED <<mainVars, wifiVars, session, deinitCount, checkedOut, lockHolder,
                   kind, fb, vec, capRes, status, body, hres, gets, acq, rets, resps>>
    /\ UNCHANGED <<cfgVars, copyHeld, apInfos, enumConv>>

\* a BMP capture that hands a JPEG frame on without running the converter
EncodeBmpSkipsJpeg(r) ==
    /\ pc[r] = "encode" /\ kind[r] = "bmp"
    /\ IF fb[r].format # PIXFORMAT_JPEG
       THEN /\ convs' = [convs EXCEPT ![r] = @ + 1]
            /\ buffer' = [buffer EXCEPT ![r] = Frame2Bmp(fb[r])]
            /\ convLive' = convLive + 1
       ELSE /\ buffer' = [buffer EXCEPT ![r] = fb[r].buf]
            /\ UNCHANGED <<convs, convLive>>
    /\ pc' = [pc EXCEPT ![r] = "copy"]
    /\ UNCHANGED <<mainVars, wifiVars, session, deinitCount, checkedOut, lockHolder,
                   kind, fb, vec, capRes, status, body, hres, gets, acq, rets, resps>>
    /\ UNCHANGED <<cfgVars, copyHeld, apInfos, enumConv>>

\* capture_bmp lines 168-175
EncodeBmp(r) ==
    /\ pc[r] = "encode" /\ kind[r] = "bmp"
    /\ convs' = [convs EXCEPT ![r] = @ + 1]
    /\ \E converted \in BOOLEAN :
         IF converted
         THEN /\ buffer' = [buffer EXCEPT ![r] = Frame2Bmp(fb[r])]
              /\ convLive' = convLive + 1
              /\ pc' = [pc EXCEPT ![r] = "copy"]
         ELSE /\ UNCHANGED <<buffer, convLive>>
              /\ pc' = [pc EXCEPT ![r] = "fail_return"]
    /\ UNCHANGED <<mainVars, wifiVars, session, deinitCount, checkedOut, lockHolder,
                   kind, fb, vec, capRes, status, body, hres, gets, acq, rets, resps>>
    /\ UNCHANGED <<cfgVars, copyHeld, apInfos, enumConv>>

\* esp_camera_fb_return(fb): the frame goes back to the driver
FbReturn(r) ==
    /\ checkedOut' = checkedOut \ {r}
    /\ rets' = [rets EXCEPT ![r] = @ + 1]

\* an error return that forgets the frame
FailNoReturn(r) ==
    /\ pc[r] = "fail_return"
    /\ UNCHANGED <<checkedOut, rets>>
    /\ capRes' = [capRes EXCEPT ![r] = "convfail"]
    /\ pc' = [pc EXCEPT ![r] = "unlock"]
    /\ UNCHANGED <<mainVars, wifiVars, session, deinitCount, convLive, lockHolder,
                   kind, fb, buffer, vec, status, body, hres, gets, acq, convs, resps>>
    /\ UNCHANGED <<cfgVars, copyHeld, apInfos, enumConv>>

\* capture_jpeg lines 147-150, capture_bmp lines 172-175 (main.rs 151-154):
\* the converter failed: return the frame, return Err
FailReturn(r) ==
    /\ pc[r] = "fail_return"
    /\ FbReturn(r)
    /\ capRes' = [capRes EXCEPT ![r] = "convfail"]
    /\ pc' = [pc EXCEPT ![r] = "unlock"]
    /\ UNCHANGED <<mainVars, wifiVars, session, deinitCount, convLive, lockHolder,
                   kind, fb, buffer, vec, status, body, hres, gets, acq, convs, resps>>
    /\ UNCHANGED <<cfgVars, copyHeld, apInfos, enumConv>>

\* `buffer` points into the frame (no conversion was made) or to the buffer
\* the converter allocated
BufferInFrame(r) == kind[r] = "jpeg" /\ ~NeedsConversion(fb[r])

\* the memory `buffer` points to still holds the bytes: always for a converter
\* buffer, for the frame's own memory only until the frame is returned
SourceValid(r) == ~BufferInFrame(r) \/ r \in checkedOut

\* what a read of returned frame memory may yield
StaleReads == {<<0, 0, 0>>, <<255, 216, 9>>}

\* a copy made after the frame went back to the driver
CopyAfterReturn(r) ==
    /\ pc[r] = "copy"
    /\ checkedOut' = checkedOut \ {r}
    /\ rets' = [rets EXCEPT ![r] = @ + 1]
    /\ copyHeld' = [copyHeld EXCEPT ![r] = r \in checkedOut']
    /\ IF ~BufferInFrame(r)
       THEN vec' = [vec EXCEPT ![r] = buffer[r]]
       ELSE \E bytes \in StaleReads : vec' = [vec EXCEPT ![r] = bytes]
    /\ pc' = [pc EXCEPT ![r] = "fb_return"]
    /\ UNCHANGED <<mainVars, wifiVars, session, deinitCount, convLive, lockHolder,
                   kind, fb, buffer, capRes, status, body, hres, gets, acq, convs, resps,
                   cfgVars, apInfos, enumConv>>

\* capture_jpeg line 156, capture_bmp line 177 (main.rs 160):
\* slice::from_raw_parts_mut(buffer, buffer_len).to_vec()
CopyOut(r) ==
    /\ pc[r] = "copy"
    /\ copyHeld' = [copyHeld EXCEPT ![r] = r \in checkedOut]
    /\ IF SourceValid(r)
       THEN vec' = [vec EXCEPT ![r] = buffer[r]]
       ELSE \* a read of memory the driver owns again: any bytes
            \E bytes \in StaleReads : vec' = [vec EXCEPT ![r] = bytes]
    /\ pc' = [pc EXCEPT ![r] = "fb_return"]
    /\ UNCHANGED <<mainVars, wifiVars, camVars, kind, fb, buffer, capRes, status,
                   body, hres, gets, acq, rets, convs, resps>>
    /\ UNCHANGED <<cfgVars, apInfos, enumConv>>

\* capture_jpeg lines 157-158, capture_bmp lines 178-179 (main.rs 161-162):
\* return the frame, return Ok(vec_clone)
ReturnOk(r) ==
    /\ pc[r] = "fb_return"
    /\ FbReturn(r)
    /\ capRes' = [capRes EXCEPT ![r] = "ok"]
    /\ pc' = [pc EXCEPT ![r] = "unlock"]
    /\ UNCHANGED <<mainVars, wifiVars, session, deinitCount, convLive, lockHolder,
                   kind, fb, buffer, vec, status, body, hres, gets, acq, convs, resps>>
    /\ UNCHANGED <<cfgVars, copyHeld, apInfos, enumConv>>

\* a guard that is never dropped
UnlockLeaks(r) ==
    /\ pc[r] = "unlock"
    /\ lockHolder' = lockHolder
    /\ pc' = [pc EXCEPT ![r] = IF kind[r] = "jpeg" THEN "respond" ELSE "done"]
    /\ fb' = [fb EXCEPT ![r] = NoFrame]
    /\ buffer' = [buffer EXCEPT ![r] = << >>]
    /\ UNCHANGED <<mainVars, wifiVars, session, deinitCount, checkedOut, convLive,
                   kind, vec, capRes, status, body, hres, gets, acq, rets, convs, resps>>
    /\ UNCHANGED <<cfgVars, copyHeld, apInfos, enumConv>>

\* a guard that is given up only when the capture succeeded, and otherwise
\* lives on while the error response is written
UnlockOnlyOnOk(r) ==
    /\ pc[r] = "unlock"
    /\ lockHolder' = IF capRes[r] = "ok" THEN NoRequest ELSE lockHolder
    /\ pc' = [pc EXCEPT ![r] = IF kind[r] = "jpeg" THEN "respond" ELSE "done"]
    /\ fb' = [fb EXCEPT ![r] = NoFrame]
    /\ buffer' = [buffer EXCEPT ![r] = << >>]
    /\ UNCHANGED <<mainVars, wifiVars, session, deinitCount, checkedOut, convLive,
                   kind, vec, capRes, status, body, hres, gets, acq, rets, convs, resps>>
    /\ UNCHANGED <<cfgVars, copyHeld, apInfos, enumConv>>

\* main.rs line 225: the MutexGuard temporary is dropped at the end of the
\* statement, after the capture call has returned; the call's locals are gone
Unlock(r) ==
    /\ pc[r] = "unlock"
    /\ lockHolder' = NoRequest
    /\ pc' = [pc EXCEPT ![r] = IF kind[r] = "jpeg" THEN "respond" ELSE "done"]
    /\ fb' = [fb EXCEPT ![r] = NoFrame]
    /\ buffer' = [buffer EXCEPT ![r] = << >>]
    /\ UNCHANGED <<mainVars, wifiVars, session, deinitCount, checkedOut, convLive,
                   kind, vec, capRes, status, body, hres, gets, acq, rets, convs, resps>>
    /\ UNCHANGED <<cfgVars, copyHeld, apInfos, enumConv>>

\* main.rs line 242: the rendering "Error: .." of a capture error
ErrorText == <<69, 114, 114>>

\* the status the handler answers with: main.rs lines 227-243
StatusAlways200(res) == 200

StatusFor(res) == IF res = "ok" THEN 200 ELSE 500

\* main.rs lines 229-236 and 241: request.into_response(200, ..)? or
\* request.into_status_response(500)?
Respond(r) ==
    /\ pc[r] = "respond"
    /\ status' = [status EXCEPT ![r] = StatusFor(capRes[r])]
    /\ resps' = [resps EXCEPT ![r] = @ + 1]
    /\ \E ok \in BOOLEAN :
         IF ok THEN /\ pc' = [pc EXCEPT ![r] = "write"]
                    /\ hres' = hres
               ELSE /\ pc' = [pc EXCEPT ![r] = "done"]
                    /\ hres' = [hres EXCEPT ![r] = "err"]
    /\ UNCHANGED <<mainVars, wifiVars, camVars, kind, fb, buffer, vec, capRes, body,
                   gets, acq, rets, convs>>
    /\ UNCHANGED <<cfgVars, copyHeld, apInfos, enumConv>>

\* main.rs lines 238 and 242, then 246: response.write_all(&jpeg)? or
\* writeln!(response, ..)?, and Ok(())
Write(r) ==
    /\ pc[r] = "write"
    /\ body' = [body EXCEPT ![r] = IF capRes[r] = "ok" THEN vec[r] ELSE ErrorText]
    /\ \E ok \in BOOLEAN : hres' = [hres EXCEPT ![r] = IF ok THEN "ok" ELSE "err"]
    /\ pc' = [pc EXCEPT ![r] = "done"]
    /\ UNCHANGED <<mainVars, wifiVars, camVars, kind, fb, buffer, vec, capRes, status,
                   gets, acq, rets, convs, resps>>
    /\ UNCHANGED <<cfgVars, copyHeld, apInfos, enumConv>>

RequestStep(r) ==
    \/ Lock(r) \/ FbGet(r) \/ EncodeJpeg(r) \/ EncodeBmp(r) \/ FailReturn(r)
    \/ CopyOut(r) \/ ReturnOk(r) \/ Unlock(r) \/ Respond(r) \/ Write(r)

Next ==
    \/ MainStep
    \/ LinkDrop
    \/ \E r \in Requests : Arrive(r) \/ RequestStep(r)

Spec == Init /\ [][Next]_vars

\* the main thread and every handler thread keep being scheduled
FairSpec ==
    /\ Spec
    /\ WF_vars(MainStep)
    /\ \A r \in Requests : WF_vars(RequestStep(r))

\* `u32::from(value)` / `value.into()` on a variant of one of the four enums
EnumInto ==
    /\ enumConv.at = "variant"
    /\ enumConv' = [enumConv EXCEPT !.code = IntoU32(enumConv.ty, enumConv.value),
                                    !.at = "native"]
    /\ UNCHANGED <<mainVars, wifiVars, camVars, reqVars, copyHeld, cfgVars, apInfos>>

\* `T::try_from(code)` on a u32: the code just produced, or any u32
EnumTryFrom ==
    /\ enumConv.at \in {"native", "code"}
    /\ enumConv' = [enumConv EXCEPT !.res = TryFromU32(enumConv.ty, enumConv.code),
                                    !.at = IF enumConv.at = "native" THEN "back"
                                           ELSE "parsed"]
    /\ UNCHANGED <<mainVars, wifiVars, camVars, reqVars, copyHeld, cfgVars, apInfos>>

\* the conversions of camera.rs on every variant and on every u32 in Codes
EnumInit ==
    /\ InitBase /\ ssid = "cam" /\ pass = "pw" /\ cfg = MainConfig
    /\ enumConv \in
          UNION { {FromVariant(ty, v) : v \in Variants(ty)} \cup
                  {FromCode(ty, c) : c \in Codes} : ty \in EnumTypes }

EnumNext == EnumInto \/ EnumTryFrom

EnumSpec == EnumInit /\ [][EnumNext]_vars

\* Camera::new on every CameraConfig: the boot sequence of main with the
\* configuration drawn from CameraConfigs
CfgInit ==
    /\ InitBase /\ ssid = "cam" /\ pass = "pw" /\ cfg \in CameraConfigs
    /\ enumConv = NoConversion

CfgSpec == CfgInit /\ [][BootStep]_vars

\* The serving side on a configured device: the handler threads next to a main
\* thread that, once booted, stays in its sleep loop, on a link that stays up.
\* Neither the sleep loop nor the link state is read or written by a handler.
ServeInit == Init /\ ssid = "cam" /\ pass = "pw"

ServeNext ==
    \/ BootStep
    \/ \E r \in Requests : Arrive(r) \/ RequestStep(r)

FairServe ==
    /\ ServeInit /\ [][ServeNext]_vars
    /\ WF_vars(BootStep)
    /\ \A r \in Requests : WF_vars(RequestStep(r))

(***************************************************************************)
(* Properties                                                              *)
(***************************************************************************)

\* the capture call of r is between its entry and its return
InCapture(r) == pc[r] \in {"fb_get", "encode", "fail_return", "copy", "fb_return"}

\* positions inside a connect() call, after its entry
AttemptStates == {"start", "scan", "configure", "associate", "lease", "ipinfo"}

RECURSIVE SumOver(_, _)
SumOver(f, S) ==
    IF S = {} THEN 0
    ELSE LET x == CHOOSE y \in S : TRUE IN f[x] + SumOver(f, S \ {x})

\* C1: under any interleaving of capture requests at most one frame is checked
\* out from the driver; a frame that is checked out belongs to the request that
\* holds the camera lock; and no request is at its acquire step while a frame
\* of another request is outstanding.
C1_OneFrameOutstanding ==
    /\ Cardinality(checkedOut) <= 1
    /\ \A r \in checkedOut : lockHolder = r
    /\ \A r \in Requests : pc[r] = "fb_get" => checkedOut = {}
    /\ \A r \in Requests : InCapture(r) => lockHolder = r

\* C1 witness: one request holds a frame while another waits for the lock
C1_Witness ==
    \E r, q \in Requests : r # q /\ r \in checkedOut /\ pc[q] = "lock"

\* C2: a capture call releases the frame it acquired exactly once before it
\* returns, on the success path and on the conversion-failure path; when no
\* capture call is in progress, releases and successful acquisitions balance.
C2_ReleaseBalance ==
    /\ \A r \in Requests : rets[r] <= acq[r]
    /\ \A r \in Requests : ~InCapture(r) => (rets[r] = acq[r] /\ r \notin checkedOut)
    /\ \A r \in Requests :
         capRes[r] \in {"ok", "convfail"} => (acq[r] = 1 /\ rets[r] = 1)
    /\ (\A r \in Requests : ~InCapture(r)) =>
         (SumOver(rets, Requests) = SumOver(acq, Requests) /\ checkedOut = {})

\* C2 witness: a capture_jpeg call that failed to convert and a capture_bmp call
\* that succeeded have both returned
C2_Witness ==
    \E r, q \in Requests :
        /\ kind[r] = "jpeg" /\ capRes[r] = "convfail" /\ ~InCapture(r)
        /\ kind[q] = "bmp" /\ capRes[q] = "ok" /\ ~InCapture(q)

\* C3: every request that starts is eventually finished, having been answered
\* exactly once, with status 200 and the captured bytes if and only if the
\* capture succeeded and with status 500 otherwise, and no longer holding the
\* lock; a capture_bmp caller likewise gets its result and gives up the lock.
C3_EveryRequestAnswered ==
    \A r \in Requests :
        (pc[r] = "lock") ~>
            /\ pc[r] = "done"
            /\ lockHolder # r
            /\ capRes[r] # "none"
            /\ kind[r] = "jpeg" =>
                 /\ resps[r] = 1
                 /\ (status[r] = 200 <=> capRes[r] = "ok")
                 /\ (status[r] = 500 <=> capRes[r] # "ok")
                 /\ (status[r] = 200 /\ hres[r] # "err") => body[r] = vec[r]

\* C3 witness: all requests are finished, one answered 200 and one answered 500
C3_Witness ==
    /\ \A r \in Requests : pc[r] = "done" /\ kind[r] = "jpeg"
    /\ \E r, q \in Requests : status[r] = 200 /\ status[q] = 500
    /\ lockHolder = NoRequest

\* C4: capture_jpeg on a frame that is already JPEG returns the frame's bytes
\* unchanged without invoking the converter; the converter is invoked (once)
\* exactly when the frame's format is not JPEG.
C4_JpegPassThrough ==
    \A r \in Requests :
        (kind[r] = "jpeg" /\ acq[r] = 1
            /\ pc[r] \in {"fail_return", "copy", "fb_return", "unlock"}) =>
            /\ (convs[r] = 1) <=> (fb[r].format # PIXFORMAT_JPEG)
            /\ (convs[r] = 0) <=> (fb[r].format = PIXFORMAT_JPEG)
            /\ (fb[r].format = PIXFORMAT_JPEG /\ pc[r] \in {"fb_return", "unlock"}) =>
                 (vec[r] = fb[r].buf /\ Len(vec[r]) = Len(fb[r].buf))
            /\ (fb[r].format = PIXFORMAT_JPEG /\ pc[r] = "unlock") => capRes[r] = "ok"

\* C4 witness: capture_jpeg has returned Ok for a frame that was already JPEG
C4_Witness ==
    \E r \in Requests :
        /\ kind[r] = "jpeg" /\ pc[r] = "unlock" /\ capRes[r] = "ok"
        /\ fb[r].format = PIXFORMAT_JPEG

\* C5: when the driver returns no frame the capture call returns its error
\* after one acquisition attempt, with no converter call and no release, and
\* without asking again; no frame is outstanding afterwards.
C5_NoFrameIsPerRequest ==
    \A r \in Requests :
        capRes[r] = "noframe" =>
            /\ gets[r] = 1 /\ acq[r] = 0 /\ convs[r] = 0 /\ rets[r] = 0
            /\ r \notin checkedOut
            /\ pc[r] \in {"unlock", "respond", "write", "done"}
            /\ pc[r] = "unlock" => checkedOut = {}
            /\ status[r] \in {0, 500}

\* C5 witness: after a request failed with no frame, a capture of another
\* request on the same session has succeeded
C5_Witness ==
    \E r, q \in Requests :
        /\ r # q
        /\ capRes[r] = "noframe" /\ pc[r] = "done" /\ status[r] = 500
        /\ lockHolder = q /\ pc[q] = "unlock" /\ capRes[q] = "ok"

\* C6: bring-up makes one more connect attempt than attempts have failed,
\* reaches Up once, returns its handle only after a successful attempt, and a
\* failed attempt is always followed by another attempt, never by an error
\* return.
C6_StartupRetriesUntilUp ==
    /\ upCount <= 1
    /\ wpc = "done" => (attempts = fails + 1 /\ counter = fails /\ upCount = 1)
    /\ wpc = "returned" => upCount = 1
    /\ wpc \in AttemptStates => (attempts = fails + 1 /\ counter = fails /\ upCount = 0)
    /\ wpc = "retry" => (attempts = fails /\ counter = fails - 1 /\ upCount = 0)
    /\ wpc = "begin" => (attempts = fails /\ counter = fails /\ upCount = 0)
    /\ wpc = "err" => (attempts = 0 /\ fails = 0)
    /\ fails > 0 => (wpc \in AttemptStates \cup {"begin", "retry", "done"} /\ pcMain = "wifi")

\* C6 witness: bring-up is about to return after two failed attempts and a
\* third, successful one
C6_Witness ==
    wpc = "done" /\ fails = 2 /\ attempts = 3

\* C7: in steady state, once the link is not Up, the bounded retry ends either
\* with the supervisor Up again or with the process terminated.
C7_BoundedRetryOrEscalation ==
    (registered /\ ~linkUp) ~> (upCount > 1 \/ pcMain \in {"panicked", "exit_err"})

\* C8: in steady state (handler registered, main in its loop), whenever the
\* link is not Up after having been Up a new connect attempt is eventually
\* started.
C8_ReconnectStarted ==
    (registered /\ upCount = 1 /\ ~linkUp) ~> (wpc \in AttemptStates \cup {"begin"})

\* C9: with an empty network name no radio step is ever performed, the first
\* connect call ends the process, and nothing is retried.
C9_EmptyNameIsFatal ==
    ssid = "" =>
        /\ wpc \in {"new", "err", "begin", "panic"}
        /\ steps = << >>
        /\ attempts <= 1 /\ fails = 0 /\ counter = 0
        /\ ~linkUp /\ wifiConf = DefaultConf
        /\ attempts = 1 => (wpc = "panic" /\ pcMain = "panicked")

\* C9 witness: the process has ended in connect's empty-name check
C9_Witness ==
    ssid = "" /\ pcMain = "panicked" /\ attempts = 1

\* C10: esp_camera_deinit runs at most once, only with no frame outstanding
\* and no capture in progress; a session that is dropped is deinitialized, also
\* when main leaves on an error path after creating it.
C10_DeinitOnceAndSafe ==
    /\ deinitCount <= 1
    /\ session = "none" => deinitCount = 0
    /\ session = "live" => deinitCount = 0
    /\ session = "dropped" => deinitCount = 1
    /\ deinitCount > 0 => (checkedOut = {} /\ \A r \in Requests : ~InCapture(r))
    /\ (pcMain = "exit_err" /\ session # "none") => (session = "dropped" /\ deinitCount = 1)
    /\ checkedOut # {} => session = "live"

\* C10 witness: main has left on an error path after the session was created
C10_Witness ==
    pcMain = "exit_err" /\ session = "dropped" /\ deinitCount = 1

\* C11: camera initialization never leaves a partial session. When the
\* driver's init returned non-zero, Camera::new returned an error: no session
\* exists, the process is on its error exit, no handler was registered, no
\* capture was ever started and esp_camera_deinit was never called. A session
\* exists (or existed and was dropped) only after the driver's init succeeded.
C11_NoPartialInit ==
    /\ camInit = "failed" =>
          /\ session = "none"
          /\ pcMain = "exit_err"
          /\ ~registered
          /\ deinitCount = 0
          /\ checkedOut = {} /\ lockHolder = NoRequest
          /\ \A r \in Requests : pc[r] = "idle" /\ gets[r] = 0
    /\ session # "none" => camInit = "ok"
    /\ deinitCount > 0 => camInit = "ok"
    /\ (\E r \in Requests : gets[r] > 0) => camInit = "ok"

\* the driver's init has failed and Camera::new has returned the error
C11_Witness == camInit = "failed" /\ pcMain = "exit_err" /\ wpc = "returned"

\* C12: the encoded bytes are copied out while the frame is still checked out.
\* The frame is held when the converter and the copy read it, the copy made
\* for the caller was taken before esp_camera_fb_return and equals the bytes
\* of the encoded buffer, and every successful capture returns such a copy.
C12_CopyBeforeRelease ==
    \A r \in Requests :
        /\ pc[r] \in {"encode", "copy", "fb_return"} => r \in checkedOut
        /\ pc[r] = "fb_return" => (copyHeld[r] /\ vec[r] = buffer[r])
        /\ capRes[r] = "ok" => (copyHeld[r] /\ r \notin checkedOut)
        /\ (pc[r] = "unlock" /\ capRes[r] = "ok") => vec[r] = buffer[r]

\* a pass-through capture (the buffer is the frame's own memory) has returned
\* its copy and the frame is back with the driver
C12_Witness ==
    \E r \in Requests :
        /\ pc[r] = "unlock" /\ capRes[r] = "ok" /\ BufferInFrame(r)
        /\ copyHeld[r] /\ rets[r] = 1 /\ vec[r] = fb[r].buf

\* the radio steps of one connect attempt, in the order of wifi.rs lines 62-98
ConnectSteps == <<"start", "scan", "configure", "associate", "lease">>

\* how many radio steps of the attempt have run when connect stands at `at`
StepsBefore(at) ==
    CASE at = "start" -> 0
      [] at = "scan" -> 1
      [] at = "configure" -> 2
      [] at = "associate" -> 3
      [] at = "lease" -> 4
      [] OTHER -> 5

\* C13: each connect attempt runs start, scan, configure, associate, lease in
\* this order. The steps an attempt has run are always an initial part of that
\* order, each step is reached with exactly the steps before it done, an
\* attempt that failed has run nothing after the failing step, and a new
\* attempt (the retry) begins with no step done, at the first step.
C13_StepsInOrder ==
    /\ Len(steps) <= Len(ConnectSteps)
    /\ steps = SubSeq(ConnectSteps, 1, Len(steps))
    /\ wpc \in {"start", "scan", "configure", "associate", "lease", "ipinfo", "done"}
          => Len(steps) = StepsBefore(wpc)
    /\ wpc \in {"new", "returned"} => steps = << >>
    /\ (wpc = "start" /\ fails > 0) => (steps = << >> /\ attempts = fails + 1)

\* after a failed attempt the retry has run the first four steps again, in order
C13_Witness ==
    /\ fails = 1 /\ attempts = 2 /\ wpc = "lease"
    /\ steps = <<"start", "scan", "configure", "associate">>

\* C14: every output buffer the format converter allocates during a capture
\* call is freed before the call returns: whenever no capture call is in
\* progress, no converter-allocated buffer is live.
C14_ConverterBuffersFreed ==
    (\A r \in Requests : ~InCapture(r)) => convLive = 0

\* C15: the camera lock is held only for the duration of the capture call. A
\* request holds it exactly from its lock until the guard is dropped after the
\* capture call has returned; a request that is building or writing its
\* response, has finished, or has failed to write, does not hold it.
C15_LockOnlyDuringCapture ==
    \A r \in Requests :
        /\ lockHolder = r <=> (InCapture(r) \/ pc[r] = "unlock")
        /\ pc[r] \in {"respond", "write", "done"} => lockHolder # r
        /\ hres[r] = "err" => lockHolder # r

\* one request has failed to write its response while another one holds the
\* lock and is inside its capture call
C15_Witness ==
    \E r, q \in Requests :
        /\ pc[r] = "done" /\ hres[r] = "err" /\ resps[r] = 1
        /\ lockHolder = q /\ InCapture(q)

\* C16: for every CameraConfig, once Camera::new has been called it has ended
\* in one of two ways: with a session whose driver configuration carries the
\* pixel format and the frame size of the input, or with an error value and no
\* session; in both, an absent control-bus port override went to the driver
\* as -1. It never ends any other way.
C16_NewReturnsSessionOrError ==
    (wpc = "returned" /\ pcMain # "camera") =>
        /\ \/ /\ camInit = "ok"
              /\ drv.pixel_format = PixelFormatToU32(cfg.pixel_format)
              /\ drv.frame_size = FrameSizeToU32(cfg.frame_size)
           \/ /\ camInit = "failed"
              /\ session = "none"
              /\ pcMain = "exit_err"
        /\ ~cfg.sccb_i2c_port.some => drv.sccb_i2c_port = -1
        /\ cfg.sccb_i2c_port.some => drv.sccb_i2c_port = cfg.sccb_i2c_port.val

\* connect has configured the association of the current attempt
Configured == pcMain = "wifi" /\ wpc \in {"associate", "lease", "ipinfo", "done"}

\* C17: when the scan result holds an announcement whose name is the configured
\* name, the association is configured with the channel of the first such
\* announcement in scan order; when none matches, it is configured with no
\* channel hint, and the attempt has proceeded to the association all the same.
C17_FirstMatchChannel ==
    Configured =>
        /\ wifiConf.ssid = ssid
        /\ IF \E i \in 1..Len(apInfos) : apInfos[i].ssid = ssid
           THEN \E i \in 1..Len(apInfos) :
                    /\ apInfos[i].ssid = ssid
                    /\ \A j \in 1..(i - 1) : apInfos[j].ssid # ssid
                    /\ wifiConf.channel = apInfos[i].channel
                    /\ wifiConf.channel # NoChannel
           ELSE wifiConf.channel = NoChannel

\* two announcements carry the configured name, after one that does not, and
\* the association is configured with the channel of the first of the two
C17_Witness ==
    /\ wpc = "associate"
    /\ Len(apInfos) = 3
    /\ apInfos[2].ssid = ssid /\ apInfos[3].ssid = ssid
    /\ apInfos[2].channel # apInfos[3].channel
    /\ wifiConf.channel = apInfos[2].channel

\* the capture call of r has gone past its acquisition, resp. its encoding
PastFbGet(r) == pc[r] \notin {"idle", "lock", "fb_get"}
PastEncode(r) == PastFbGet(r) /\ pc[r] # "encode"

\* C18: each capture call asks the driver for a frame exactly once and runs at
\* most one encoding pass. A call that got a frame got one frame; capture_bmp
\* has invoked the BMP converter exactly once for the frame it acquired,
\* whatever the frame's pixel format; capture_jpeg has invoked the JPEG
\* converter at most once; no call acquires a second frame.
C18_OneFrameOnePass ==
    \A r \in Requests :
        /\ gets[r] <= 1 /\ acq[r] <= gets[r] /\ convs[r] <= acq[r]
        /\ PastFbGet(r) => gets[r] = 1
        /\ (PastFbGet(r) /\ capRes[r] # "noframe") => acq[r] = 1
        /\ (kind[r] = "bmp" /\ PastEncode(r)) => convs[r] = acq[r]
        /\ (kind[r] = "bmp" /\ InCapture(r) /\ PastEncode(r)) => convs[r] = 1
        /\ (kind[r] = "jpeg" /\ PastFbGet(r)) => convs[r] <= 1

\* capture_bmp has converted a frame whose pixel format is JPEG, once, and is
\* about to return its bytes
C18_Witness ==
    \E r \in Requests :
        /\ kind[r] = "bmp" /\ pc[r] = "fb_return"
        /\ fb[r].format = PIXFORMAT_JPEG
        /\ gets[r] = 1 /\ acq[r] = 1 /\ convs[r] = 1
        /\ buffer[r] = Frame2Bmp(fb[r])

\* C19: the capture handler is registered only after link bring-up has returned
\* successfully and the camera has been initialized, so a request is only ever
\* served on an initialized camera; when link bring-up or camera
\* initialization ended with an error, the process has exited, or is exiting,
\* with no handler registered and no request ever started.
C19_RegisterAfterLinkAndCamera ==
    /\ registered =>
          /\ wpc = "returned" /\ upCount = 1
          /\ camInit = "ok" /\ session = "live"
          /\ pcMain \in {"loop", "sleep"}
    /\ \A r \in Requests : pc[r] # "idle" => (registered /\ camInit = "ok")
    /\ (wpc \in {"err", "panic"} \/ camInit = "failed") =>
          /\ ~registered
          /\ pcMain \in {"exit_err", "panicked"}
          /\ \A r \in Requests : pc[r] = "idle"
    /\ pcMain \in {"wifi", "camera", "server", "handler", "unwind"} => ~registered

\* the handler is registered, after bring-up and camera initialization, and a
\* request is being served on the live session
C19_Witness ==
    /\ registered /\ wpc = "returned" /\ camInit = "ok"
    /\ \E r \in Requests : pc[r] = "fb_get" /\ lockHolder = r

\* C20: the association uses WPA2-personal exactly when the pass-phrase is
\* non-empty and no authentication exactly when it is empty, in every attempt
\* and for every scan result: from the choice at the head of connect to the
\* configuration the association is made with.
C20_AuthFromPassOnly ==
    /\ (pcMain = "wifi" /\ wpc \in AttemptStates \cup {"done"}) =>
          /\ authMethod = "WPA2Personal" <=> pass # ""
          /\ authMethod = "None" <=> pass = ""
    /\ Configured =>
          /\ wifiConf.auth = "WPA2Personal" <=> pass # ""
          /\ wifiConf.auth = "None" <=> pass = ""
          /\ wifiConf.password = pass

\* a retry with an empty pass-phrase has configured an open association, with
\* the network seen in the scan
C20_Witness ==
    /\ wpc = "associate" /\ pass = "" /\ fails = 1
    /\ wifiConf.auth = "None"
    /\ wifiConf.channel # NoChannel

\* the u32 is the native code of some variant of the enum
IsCodeOf(ty, c) == \E v \in Variants(ty) : IntoU32(ty, v) = c

\* C21: the enum-to-native-code mappings are bidirectional. For every variant
\* of PixelFormat, FrameSize, FbLocation and FbGrabMode, the variant's code
\* converted back is Ok of the same variant; a u32 that is the code of a
\* variant converts to Ok of the variant with that code, and a u32 that is the
\* code of no variant converts to the error value: every conversion ends with
\* a variant or with the error value.
C21_MappingsBidirectional ==
    /\ enumConv.at \in {"native", "back"} =>
          /\ enumConv.code \in Nat
          /\ enumConv.code = IntoU32(enumConv.ty, enumConv.value)
    /\ enumConv.at = "back" => enumConv.res = Ok(enumConv.value)
    /\ enumConv.at = "parsed" =>
          IF IsCodeOf(enumConv.ty, enumConv.code)
          THEN /\ enumConv.res.ok
               /\ enumConv.res.val \in Variants(enumConv.ty)
               /\ IntoU32(enumConv.ty, enumConv.res.val) = enumConv.code
          ELSE enumConv.res = Err
    /\ enumConv.at \in {"back", "parsed"} =>
          enumConv.res \in {Err} \cup {Ok(v) : v \in Variants(enumConv.ty)}

\* the last variant of FrameSize has gone to its native code and back
C21_Witness ==
    /\ enumConv.at = "back" /\ enumConv.ty = "FrameSize"
    /\ enumConv.value = "INVALID" /\ enumConv.code = FRAMESIZE_INVALID
    /\ enumConv.res = Ok("INVALID")

====
